---- MODULE Spec2Model ----
(***************************************************************************)
(* jQuery Websheet (src/jquery.websheet.js) as a state machine.            *)
(*                                                                         *)
(* A string that the code inspects character by character (field names,    *)
(* field values, the filename template, URLs, cell texts) is a sequence of *)
(* one-character strings.  Opaque markup and labels (the loading and       *)
(* failure markup, header texts, CSS class names) are plain strings.       *)
(***************************************************************************)
EXTENDS Integers, Sequences, FiniteSets, TLC

VARIABLES
  args,         \* the options object passed to $(form).websheet(args)
  ready,        \* TRUE once the per-form initialisation (lines 209-386) completed
  format,       \* closure variable format: the split filename template
  base_url,     \* closure variable base_url
  dl_url,       \* closure variable dl_url (shared by all submissions)
  inputs,       \* the form's own input/select elements, in DOM order
  hiddens,      \* the hidden inputs inside the span appended to the form
  last_submit,  \* form.prop('last_submit')
  sort_prop,    \* form.prop('__websheet_sort_col' / '_desc' / '_title')
  div,          \* the display area inserted after the form
  inflight,     \* the outstanding $.ajax requests, oldest first
  server,       \* environment: [pool, cap], the documents the server answers
                \* from and the requests the browser keeps outstanding
  lastOk,       \* history: the fields serialized by the submission whose
                \* success callback ran last
  ev            \* history: the handler that ran last and what it returned

vars == <<args, ready, format, base_url, dl_url, inputs, hiddens, last_submit,
          sort_prop, div, inflight, server, lastOk, ev>>

-----------------------------------------------------------------------------
(* Bounds *)

\* outstanding requests per form where responses may overlap
MaxInflight == 2
\* outstanding requests per form in the state-synchronisation and the sort
\* specification
MaxPending == 1
\* fields of a form in the URL-builder specification
MaxFields == 2
\* characters of a filename template in the URL-builder specification
MaxTemplateLen == 3
\* body rows of a table in the sort specification
MaxRows == 3

-----------------------------------------------------------------------------
(* Characters and strings *)

Digits == {"0","1","2","3","4","5","6","7","8","9"}
LowerCase == {"a","b","c","d","e","f","g","h","i","j","k","l","m",
              "n","o","p","q","r","s","t","u","v","w","x","y","z"}
UpperCase == {"A","B","C","D","E","F","G","H","I","J","K","L","M",
              "N","O","P","Q","R","S","T","U","V","W","X","Y","Z"}

\* the printable ASCII characters in code order, from space (32) to tilde (126);
\* the double quote (34), the backslash (92) and the backtick (96) keep their
\* places under a name
Ascii == <<" ","!","dquote","#","$","%","&","'","(",")","*","+",",","-",".","/",
           "0","1","2","3","4","5","6","7","8","9",":",";","<","=",">","?",
           "@","A","B","C","D","E","F","G","H","I","J","K","L","M","N","O",
           "P","Q","R","S","T","U","V","W","X","Y","Z","[","backslash","]","^","_",
           "backtick","a","b","c","d","e","f","g","h","i","j","k","l","m","n","o",
           "p","q","r","s","t","u","v","w","x","y","z","{","|","}","~">>

\* the place of each character in Ascii
AsciiIndex ==
  [c \in {Ascii[i] : i \in 1..Len(Ascii)} |-> CHOOSE i \in 1..Len(Ascii) : Ascii[i] = c]

\* charCodeAt
Code(c) == 31 + AsciiIndex[c]

toUpperChar(c) == IF c \in LowerCase THEN Ascii[Code(c) - 32 - 31] ELSE c

toUpperCase(s) == [i \in 1..Len(s) |-> toUpperChar(s[i])]

\* s < t as JavaScript compares strings: by code unit, a proper prefix first
RECURSIVE StrLess(_, _)
StrLess(s, t) ==
  IF t = <<>> THEN FALSE
  ELSE IF s = <<>> THEN TRUE
  ELSE IF s[1] = t[1] THEN StrLess(Tail(s), Tail(t))
  ELSE Code(s[1]) < Code(t[1])

RECURSIVE Concat(_)
Concat(ss) == IF ss = <<>> THEN <<>> ELSE ss[1] \o Concat(Tail(ss))

SeqsUpTo(S, n) == UNION {[1..k -> S] : k \in 0..n}

Reverse(s) == [i \in 1..Len(s) |-> s[Len(s) + 1 - i]]

-----------------------------------------------------------------------------
(* URL builder: the submit handler's construction of dl_url *)

Alnum == Digits \cup LowerCase \cup UpperCase

\* name.replace(nameRegex, ''), nameRegex = /[^a-zA-Z0-9]+/g
stripName(s) == SelectSeq(s, LAMBDA c : c \in Alnum)

\* value.replace(valueRegex, ''), valueRegex = /[:+\/#?]+/g
stripValue(s) == SelectSeq(s, LAMBDA c : c \notin {":", "+", "/", "#", "?"})

extension == <<".", "x", "l", "s">>

\* String.prototype.split with the capturing separator /([^a-zA-Z0-9]+)/:
\* chunks of alphanumerics (possibly empty at either end) alternate with the
\* separator runs between them, which the capture keeps in the result.
\* The chunks collected so far are toks; cur is the chunk being read, a
\* separator run when Len(toks) is odd.
RECURSIVE SplitFrom(_, _, _, _)
SplitFrom(s, i, toks, cur) ==
  IF i > Len(s)
    THEN IF Len(toks) % 2 = 1
           THEN Append(Append(toks, cur), <<>>)
           ELSE Append(toks, cur)
    ELSE IF (s[i] \notin Alnum) = (Len(toks) % 2 = 1)
           THEN SplitFrom(s, i + 1, toks, Append(cur, s[i]))
           ELSE SplitFrom(s, i + 1, Append(toks, cur), <<s[i]>>)

split(s) == SplitFrom(s, 1, <<>>, <<>>)

\* Array.prototype.toString of an array of strings: the elements joined by ","
RECURSIVE join(_)
join(a) ==
  IF a = <<>> THEN <<>>
  ELSE IF Len(a) = 1 THEN a[1]
  ELSE a[1] \o <<",">> \o join(Tail(a))

\* a serialization that misses the hidden inputs, as it would if the span
\* holding them were inserted outside the form
serializeOwnControls(ins, hid) ==
  [i \in 1..Len(ins) |-> [name |-> ins[i].name, value |-> ins[i].value]]

\* form.serializeArray(): the named controls in DOM order; the span of hidden
\* inputs was appended to the form, so they follow the form's own fields
serializeArray(ins, hid) ==
  [i \in 1..Len(ins) |-> [name |-> ins[i].name, value |-> ins[i].value]] \o
  [i \in 1..Len(hid) |-> [name |-> hid[i].name, value |-> hid[i].value]]

\* A JavaScript object with string values (fieldsObj, the setState argument)
\* is the sequence of its [name, value] properties in insertion order, which
\* is the order in which $.each enumerates them.
Has(obj, n) == \E i \in 1..Len(obj) : obj[i].name = n

Get(obj, n) == obj[CHOOSE i \in 1..Len(obj) : obj[i].name = n].value

Delete(obj, n) == SelectSeq(obj, LAMBDA p : p.name # n)

Put(obj, n, v) ==
  IF Has(obj, n)
    THEN [i \in 1..Len(obj) |->
            IF obj[i].name = n THEN [name |-> n, value |-> v] ELSE obj[i]]
    ELSE Append(obj, [name |-> n, value |-> v])

Keys(obj) == {obj[i].name : i \in 1..Len(obj)}

\* fieldsObj after the $.each loop of lines 233-238: a later field of the same
\* name overwrites the value
RECURSIVE MakeFieldsObj(_)
MakeFieldsObj(fields) ==
  IF fields = <<>> THEN <<>>
  ELSE LET n == Len(fields)
       IN  Put(MakeFieldsObj(SubSeq(fields, 1, n - 1)), fields[n].name, fields[n].value)

\* the segment a field adds to dl_url (lines 234-236)
Segment(field) ==
  IF field.value # <<>> /\ SubSeq(field.name, 1, 1) # <<"_">>
    THEN stripName(field.name) \o <<":">> \o stripValue(field.value) \o <<"/">>
    ELSE <<>>

\* what format[i] adds to dl_url (lines 240-244)
FormatPart(tok, fieldsObj) ==
  IF Has(fieldsObj, tok) THEN stripValue(Get(fieldsObj, tok)) ELSE tok

\* dl_url as the submit handler leaves it (lines 232-246)
BuildUrl(base, fields, fmt) ==
  base
  \o Concat([i \in 1..Len(fields) |-> Segment(fields[i])])
  \o Concat([i \in 1..Len(fmt) |-> FormatPart(fmt[i], MakeFieldsObj(fields))])
  \o extension

\* base_url after lines 218-220
NormalizeBase(b) ==
  IF b = <<>> \/ b[Len(b)] # "/" THEN b \o <<"/">> ELSE b

-----------------------------------------------------------------------------
(* Typed cell values: the entries of a row's __data array *)

\* One record shape for every typed value: k is the JavaScript type
\* ("bool", "num", "nan" for NaN and for an Invalid Date, "date", "str");
\* a number is n / 10^e, a date is ordered by n, a string is s.
BoolV(b) == [k |-> "bool", n |-> IF b THEN 1 ELSE 0, e |-> 0, s |-> <<>>]
NumV(n, e) == [k |-> "num", n |-> n, e |-> e, s |-> <<>>]
NaNV == [k |-> "nan", n |-> 0, e |-> 0, s |-> <<>>]
DateV(n) == [k |-> "date", n |-> n, e |-> 0, s |-> <<>>]
StrV(s) == [k |-> "str", n |-> 0, e |-> 0, s |-> s]

RECURSIVE Pow10(_)
Pow10(e) == IF e = 0 THEN 1 ELSE 10 * Pow10(e - 1)

RECURSIVE DigitsValue(_)
DigitsValue(ds) ==
  IF ds = <<>> THEN 0
  ELSE 10 * DigitsValue(SubSeq(ds, 1, Len(ds) - 1)) + (Code(ds[Len(ds)]) - 48)

\* the longest run of decimal digits of s that starts at position i
RECURSIVE DigitRun(_, _)
DigitRun(s, i) ==
  IF i <= Len(s) /\ s[i] \in Digits THEN <<s[i]>> \o DigitRun(s, i + 1) ELSE <<>>

\* parseFloat on a string of the characters [0-9.+-] only: an optional sign,
\* digits, an optional period and more digits; NaN when no digit is read
parseFloat(s) ==
  LET signed == s # <<>> /\ s[1] \in {"+", "-"}
      start  == IF signed THEN 2 ELSE 1
      int    == DigitRun(s, start)
      dot    == start + Len(int)
      frac   == IF dot <= Len(s) /\ s[dot] = "." THEN DigitRun(s, dot + 1) ELSE <<>>
      mant   == DigitsValue(int \o frac)
  IN  IF int = <<>> /\ frac = <<>> THEN NaNV
      ELSE NumV(IF signed /\ s[1] = "-" THEN 0 - mant ELSE mant, Len(frac))

\* String.prototype.replace with a string pattern: the first occurrence only
RECURSIVE replaceFirst(_, _, _)
replaceFirst(s, c, r) ==
  IF s = <<>> THEN <<>>
  ELSE IF s[1] = c THEN <<r>> \o Tail(s)
  ELSE <<s[1]>> \o replaceFirst(Tail(s), c, r)

\* src.replace(/[^0-9\.+\-]/g, '')
stripNonNumeric(s) == SelectSeq(s, LAMBDA c : c \in Digits \cup {".", "+", "-"})

stringToFloat(src, lang) ==
  IF lang = "fr"
    THEN parseFloat(stripNonNumeric(replaceFirst(src, ",", ".")))
    ELSE parseFloat(stripNonNumeric(src))

RECURSIVE trimLeft(_)
trimLeft(s) == IF s # <<>> /\ s[1] = " " THEN trimLeft(Tail(s)) ELSE s

trim(s) == Reverse(trimLeft(Reverse(trimLeft(s))))

\* s.replace(/[\s\.\-]+/g, '/'): every run of blanks, periods and hyphens
\* becomes one slash
RECURSIVE dateSeparators(_)
dateSeparators(s) ==
  IF s = <<>> THEN <<>>
  ELSE IF s[1] \in {" ", ".", "-"}
    THEN IF Len(s) > 1 /\ s[2] \in {" ", ".", "-"}
           THEN dateSeparators(Tail(s))
           ELSE <<"/">> \o dateSeparators(Tail(s))
    ELSE <<s[1]>> \o dateSeparators(Tail(s))

\* new Date("y/m/d"): the date constructor is the browser's; of its parsing the
\* model keeps the year/month/day form, every other text being an Invalid Date
NewDate(s) ==
  LET y  == DigitRun(s, 1)
      p1 == Len(y) + 1
      m  == DigitRun(s, p1 + 1)
      p2 == p1 + Len(m) + 1
      d  == DigitRun(s, p2 + 1)
  IN  IF /\ y # <<>> /\ m # <<>> /\ d # <<>>
         /\ Len(s) = p2 + Len(d)
         /\ s[p1] = "/" /\ s[p2] = "/"
         /\ DigitsValue(m) \in 1..12 /\ DigitsValue(d) \in 1..31
      THEN DateV(DigitsValue(y) * 10000 + DigitsValue(m) * 100 + DigitsValue(d))
      ELSE NaNV

\* the value pushed on data for a cell of a column of class cls (lines 314-328)
TypedValue(cls, cellText, lang) ==
  CASE cls = "bool" -> BoolV(trim(cellText) # <<>>)
    [] cls \in {"number", "amount"} -> stringToFloat(cellText, lang)
    [] cls = "date" -> NewDate(dateSeparators(trim(cellText)))
    [] OTHER -> StrV(trim(cellText))

-----------------------------------------------------------------------------
(* Sort engine: sortTable.  A row is [id, data]: id is the row's position in *)
(* the fetched document, data its __data array.  Column indexes count from 0 *)
(* as in the source.                                                         *)

NumericTypes == {"bool", "number", "amount", "date"}

\* $(a).prop('__data')[colIndex] as the subtraction of line 166 converts it:
\* an entry the row does not have is undefined, which converts to NaN
NumberAt(row, colIndex) ==
  IF colIndex + 1 > Len(row.data) THEN NaNV
  ELSE LET v == row.data[colIndex + 1]
       IN  CASE v.k \in {"bool", "num", "date"} -> v
             [] v.k = "nan" -> NaNV

\* the sign of the comparator's result as Array.prototype.sort reads it; a NaN
\* result counts as +0
CompareNumbers(a, b) ==
  IF a.k = "nan" \/ b.k = "nan" THEN 0
  ELSE IF a.n * Pow10(b.e) < b.n * Pow10(a.e) THEN -1
  ELSE IF a.n * Pow10(b.e) > b.n * Pow10(a.e) THEN 1
  ELSE 0

CompareText(as, bs) ==
  IF StrLess(bs, as) THEN 1 ELSE IF StrLess(as, bs) THEN -1 ELSE 0

comparator(a, b, colIndex, sortType) ==
  IF sortType \in NumericTypes
    THEN CompareNumbers(NumberAt(a, colIndex), NumberAt(b, colIndex))
    ELSE CompareText(toUpperCase(a.data[colIndex + 1].s),
                     toUpperCase(b.data[colIndex + 1].s))

\* the text comparator calls toUpperCase on undefined, a TypeError, as soon as
\* it is handed a row without the entry; sort calls it when there are two rows
ComparatorThrows(rows, colIndex, sortType) ==
  /\ sortType \notin NumericTypes
  /\ Len(rows) >= 2
  /\ \E i \in 1..Len(rows) : colIndex + 1 > Len(rows[i].data)

\* ECMAScript's consistent comparison function, on the rows being sorted
Consistent(rows, colIndex, sortType) ==
  LET I == 1..Len(rows)
      c == [i \in I, j \in I |-> comparator(rows[i], rows[j], colIndex, sortType)]
  IN  \A i, j, k \in I :
        /\ (c[i, j] < 0) = (c[j, i] > 0)
        /\ (c[i, j] = 0 /\ c[j, k] = 0) => c[i, k] = 0
        /\ (c[i, j] < 0 /\ c[j, k] < 0) => c[i, k] < 0

RowOrders(rows) ==
  {[i \in 1..Len(rows) |-> rows[p[i]]] :
     p \in {q \in [1..Len(rows) -> 1..Len(rows)] :
              \A i, j \in 1..Len(rows) : q[i] = q[j] => i = j}}

\* the stable sort: a row goes after the rows that compare smaller and after
\* the rows before it that compare equal
StableSort(rows, colIndex, sortType) ==
  LET I == 1..Len(rows)
      c == [i \in I, j \in I |-> comparator(rows[i], rows[j], colIndex, sortType)]
      rank(i) == 1 + Cardinality({j \in I : c[j, i] < 0 \/ (c[j, i] = 0 /\ j < i)})
  IN  [r \in I |-> rows[CHOOSE i \in I : rank(i) = r]]

\* rows.sort(comparator): stable (ECMAScript 2019) when the comparator is
\* consistent on the rows; otherwise the order is implementation-defined
ArraySort(rows, colIndex, sortType) ==
  IF Len(rows) < 2 THEN {rows}   \* the comparator is never called
  ELSE IF Consistent(rows, colIndex, sortType)
    THEN {StableSort(rows, colIndex, sortType)}
    ELSE RowOrders(rows)

\* The outcomes of sortTable(table, colIndex, descending, sortType) on a tbody
\* holding rows: the rows the tbody holds afterwards, and whether the call
\* threw.  Every row is detached first (lines 156-158), so a call that throws
\* inside the sort leaves the tbody without rows.
sortTable(rows, colIndex, descending, sortType) ==
  IF ComparatorThrows(rows, colIndex, sortType)
    THEN {[threw |-> TRUE, rows |-> <<>>]}
    ELSE {[threw |-> FALSE, rows |-> IF descending THEN Reverse(r) ELSE r] :
            r \in ArraySort(rows, colIndex, sortType)}

-----------------------------------------------------------------------------
(* The plugin's options and the per-form state *)

\* The closure variables of $.fn.websheet after the option handling.  The
\* options the model varies are the fields of args; "" and 0 stand for an
\* option that was not passed.  args.failed is never read by the code.
lang == IF args.lang # "" THEN args.lang ELSE "en"
init_sort_col == IF args.init_sort_col # 0 THEN args.init_sort_col ELSE 0
init_sort_desc == IF args.init_sort_desc THEN args.init_sort_desc ELSE FALSE
loading == "Loading..."
failed == "An error occured while attempting to load data."
callback == args.callback

\* the display area: its markup, and the table it holds when html = "table"
NoTable == [present |-> FALSE, href |-> <<>>, headers |-> <<>>, rows |-> <<>>]
EmptyDiv == [html |-> "", table |-> NoTable]

\* the form before any header was clicked: the three sort properties undefined
NoSort == [set |-> FALSE, col |-> 0, desc |-> FALSE, title |-> ""]

\* the history record of the handler that ran last
Ev(op) == [op |-> op, ret |-> FALSE, arg |-> <<>>, patch |-> <<>>, aliased |-> FALSE,
           col |-> 0, desc |-> FALSE, threw |-> FALSE, fresh |-> FALSE,
           hasTable |-> FALSE, matched |-> FALSE, req |-> 0, seen |-> <<>>]

\* The state after $(form).websheet(a) on a form with the data attributes
\* attr (data-filename-format) and base (data-source) and the controls ins.
\* An absent data-filename-format makes attr(...).split throw at line 212:
\* nothing after it runs and no handler is registered.
Construct(a, attr, base, ins, env) ==
  /\ args = a
  /\ ready = attr.present
  /\ format = IF attr.present THEN split(attr.value) ELSE <<>>
  /\ base_url = IF attr.present THEN NormalizeBase(base) ELSE <<>>
  /\ dl_url = IF attr.present THEN base \o join(split(attr.value)) \o extension ELSE <<>>
  /\ inputs = ins
  /\ hiddens = <<>>
  /\ last_submit = <<>>
  /\ sort_prop = NoSort
  /\ div = EmptyDiv
  /\ inflight = <<>>
  /\ server = env
  /\ lastOk = <<>>
  /\ ev = Ev("init")

-----------------------------------------------------------------------------
(* form.submit handler, up to the $.ajax call *)

\* The request a submission of the controls ins and hid issues: the url
\* handed to $.ajax and the fieldsObj its success callback closes over
Request(ins, hid) ==
  [url |-> BuildUrl(base_url, serializeArray(ins, hid), format),
   fieldsObj |-> MakeFieldsObj(serializeArray(ins, hid))]

\* a submission that aborts the fetches still outstanding
SubmitAborting ==
  /\ ready
  /\ Len(inflight) < server.cap
  /\ LET r == Request(inputs, hiddens)
     IN  /\ dl_url' = r.url
         /\ inflight' = <<r>>
  /\ div' = [html |-> loading, table |-> NoTable]
  /\ ev' = Ev("submit")
  /\ UNCHANGED <<args, ready, format, base_url, inputs, hiddens, last_submit,
                 sort_prop, server, lastOk>>

Submit ==
  /\ ready
  /\ Len(inflight) < server.cap
  /\ LET r == Request(inputs, hiddens)
     IN  /\ dl_url' = r.url
         /\ inflight' = Append(inflight, r)
  /\ div' = [html |-> loading, table |-> NoTable]
  /\ ev' = Ev("submit")
  /\ UNCHANGED <<args, ready, format, base_url, inputs, hiddens, last_submit,
                 sort_prop, server, lastOk>>

\* the user types into, or selects in, one of the form's controls
EditInput(i, v) ==
  /\ ready
  /\ i \in 1..Len(inputs)
  /\ inputs[i].value # v
  /\ inputs' = [inputs EXCEPT ![i].value = v]
  /\ ev' = Ev("edit")
  /\ UNCHANGED <<args, ready, format, base_url, dl_url, hiddens, last_submit,
                 sort_prop, div, inflight, server, lastOk>>

RemoveAt(s, k) == SubSeq(s, 1, k - 1) \o SubSeq(s, k + 1, Len(s))

\* $.ajax error callback of request k
FetchError(k) ==
  /\ k \in 1..Len(inflight)
  /\ div' = [html |-> failed, table |-> NoTable]
  /\ inflight' = RemoveAt(inflight, k)
  /\ ev' = [Ev("error") EXCEPT !.req = k]
  /\ UNCHANGED <<args, ready, format, base_url, dl_url, inputs, hiddens,
                 last_submit, sort_prop, server, lastOk>>

-----------------------------------------------------------------------------
(* The documents the server answers with.  A fetched document is            *)
(* [hasTable, headers, rows]: whether it contains a table, the cells        *)
(* [text, cls] of the first row of its thead (none when it has no thead),   *)
(* and the cell texts of its body rows.                                     *)

HeaderCell(t, c) == [text |-> t, cls |-> c]
NoTableDoc == [hasTable |-> FALSE, headers |-> <<>>, rows |-> <<>>]
TableDoc(hs, rs) == [hasTable |-> TRUE, headers |-> hs, rows |-> rs]

StateDocs ==
  {NoTableDoc,
   TableDoc(<<HeaderCell("A", "number")>>, << <<<<"2">>>>, <<<<"1">>>> >>)}

Cell(s) == <<s>>

\* two columns, number and text, with a tie in either
WideDoc ==
  TableDoc(<<HeaderCell("A", "number"), HeaderCell("B", "text")>>,
           << <<Cell("2"), Cell("b")>>, <<Cell("1"), Cell("a")>>,
              <<Cell("2"), Cell("a")>> >>)
\* a single column
NarrowDoc ==
  TableDoc(<<HeaderCell("A", "number")>>, << <<Cell("2")>>, <<Cell("1")>> >>)
\* the columns of WideDoc under exchanged header texts
SwappedDoc ==
  TableDoc(<<HeaderCell("B", "number"), HeaderCell("A", "text")>>,
           << <<Cell("2"), Cell("b")>>, <<Cell("1"), Cell("a")>> >>)
\* a body row with fewer cells than the header row
ShortRowDoc ==
  TableDoc(<<HeaderCell("A", "text"), HeaderCell("B", "text")>>,
           << <<Cell("b")>>, <<Cell("a"), Cell("x")>> >>)
\* a table without a thead
HeadlessDoc == TableDoc(<<>>, << <<Cell("1")>> >>)

TableDocs ==
  {NoTableDoc, WideDoc, NarrowDoc, SwappedDoc, ShortRowDoc, HeadlessDoc}

SortCells(cls) ==
  CASE cls = "number" -> {<<"1">>, <<"2">>, <<"x">>}
    [] cls = "bool" -> {<<>>, <<"y">>}
    [] cls = "date" -> {<<"2", "0", "2", "0", "-", "1", "-", "2">>, <<"x">>}
    [] OTHER -> {<<"a">>, <<"A">>, <<"b">>}

ColumnKinds == {"number", "bool", "date", "text"}

\* the tables of one column of class cls with up to MaxRows rows
ColumnDocs(cls) ==
  {TableDoc(<<HeaderCell("A", cls)>>, [r \in 1..Len(col) |-> <<col[r]>>]) :
     col \in SeqsUpTo(SortCells(cls), MaxRows)}

\* cell texts with commas and periods: 1,5  1,5,7  1,234.50  1.5  x
LocaleCells ==
  {<<"1", ",", "5">>, <<"1", ",", "5", ",", "7">>,
   <<"1", ",", "2", "3", "4", ".", "5", "0">>, <<"1", ".", "5">>, <<"x">>}

\* one row under a number and an amount column
LocaleDocs ==
  {TableDoc(<<HeaderCell("A", "number"), HeaderCell("B", "amount")>>, << <<a, b>> >>) :
     a \in LocaleCells, b \in LocaleCells}

\* the document a server that reports the requested URL answers with: one
\* text column whose only cell is that URL
EchoDoc(url) == TableDoc(<<HeaderCell("A", "text")>>, << <<url>> >>)

\* the environment of a specification
Network(pool, cap) == [pool |-> pool, cap |-> cap]

\* the documents of the pool a specification lets the server answer from
Documents(pool) ==
  CASE pool = "state" -> StateDocs
    [] pool = "table" -> TableDocs
    [] pool \in ColumnKinds -> ColumnDocs(pool)
    [] pool = "locale" -> LocaleDocs
    [] pool = "echo" -> {EchoDoc(inflight[k].url) : k \in 1..Len(inflight)}
    [] OTHER -> {NoTableDoc}

-----------------------------------------------------------------------------
(* $.ajax success callback *)

\* classes[i], undefined (written "") past the last header cell
ClassAt(classes, i) == IF i + 1 <= Len(classes) THEN classes[i + 1] ELSE ""

\* the data array built for one body row (lines 307-330)
RowData(cells, classes) ==
  [i \in 1..Len(cells) |-> TypedValue(ClassAt(classes, i - 1), cells[i], lang)]

\* the table as appended to the display area at line 335: the caption link to
\* the current dl_url, no header marked, the rows in document order
Materialize(doc) ==
  LET classes == [i \in 1..Len(doc.headers) |-> doc.headers[i].cls]
  IN  [present |-> TRUE,
       href |-> dl_url,
       headers |-> [i \in 1..Len(doc.headers) |->
                      [text |-> doc.headers[i].text, cls |-> doc.headers[i].cls,
                       marks |-> {}]],
       rows |-> [r \in 1..Len(doc.rows) |->
                   [id |-> r, cells |-> doc.rows[r],
                    data |-> RowData(doc.rows[r], classes)]]]

\* the condition of line 284 holds for some header cell of the new table
SortMatches(doc) ==
  /\ sort_prop.set
  /\ sort_prop.col + 1 <= Len(doc.headers)
  /\ doc.headers[sort_prop.col + 1].text = sort_prop.title

OrderClass(desc) == IF desc THEN "desc" ELSE "asc"

\* children().eq(col).addClass(order): nothing when there is no such cell
addClass(headers, col, order) ==
  [i \in 1..Len(headers) |->
     IF i = col + 1 THEN [headers[i] EXCEPT !.marks = @ \cup {order}] ELSE headers[i]]

\* children().removeClass('asc desc')
removeClass(headers) ==
  [i \in 1..Len(headers) |-> [headers[i] EXCEPT !.marks = {}]]

\* a table a callback that runs once sorting is over would be handed
TableAfterSort(appended, sorted) == sorted

\* the table callback(form, table) is handed at line 336: the one appended to
\* the display at line 335, sortTable running only at line 337
CallbackArgument(appended, sorted) == appended

\* the calls of the configured callback during one success callback
CallbackCalls(appended, sorted) ==
  IF callback THEN <<CallbackArgument(appended, sorted)>> ELSE <<>>

FetchSuccess(k, doc) ==
  /\ k \in 1..Len(inflight)
  /\ doc \in Documents(server.pool)
  /\ last_submit' = inflight[k].fieldsObj
  /\ lastOk' = inflight[k].fieldsObj
  /\ inflight' = RemoveAt(inflight, k)
  /\ IF ~doc.hasTable
       THEN \* every step acts on an empty jQuery set; the display stays empty
            /\ div' = EmptyDiv
            /\ ev' = [Ev("success") EXCEPT !.req = k,
                        !.seen = CallbackCalls(NoTable, NoTable)]
       ELSE LET t         == Materialize(doc)
                matched   == SortMatches(doc)
                sort_col  == IF matched THEN sort_prop.col ELSE init_sort_col
                sort_desc == IF matched THEN sort_prop.desc ELSE init_sort_desc
                sortType  == ClassAt([i \in 1..Len(t.headers) |-> t.headers[i].cls],
                                     sort_col)
            IN  \E o \in sortTable(t.rows, sort_col, sort_desc, sortType) :
                  LET sorted == [t EXCEPT
                                   !.rows = o.rows,
                                   !.headers = IF o.threw THEN @
                                               ELSE addClass(@, sort_col,
                                                             OrderClass(sort_desc))]
                  IN  /\ div' = [html |-> "table", table |-> sorted]
                      /\ ev' = [Ev("success") EXCEPT !.req = k,
                                  !.hasTable = TRUE, !.matched = matched,
                                  !.col = sort_col, !.desc = sort_desc,
                                  !.threw = o.threw,
                                  !.seen = CallbackCalls(t, sorted)]
  /\ UNCHANGED <<args, ready, format, base_url, dl_url, inputs, hiddens,
                 sort_prop, server>>

-----------------------------------------------------------------------------
(* header click handler *)

ClickHeader(i) ==
  /\ div.html = "table"
  /\ i \in 0..(Len(div.table.headers) - 1)
  /\ LET h        == div.table.headers[i + 1]
         wasInit  == OrderClass(init_sort_desc) \in h.marks
         newDesc  == (wasInit # init_sort_desc)
         newOrder == OrderClass(newDesc)
     IN  \E o \in sortTable(div.table.rows, i, newDesc, h.cls) :
           /\ div' = [div EXCEPT
                !.table.rows = o.rows,
                !.table.headers = IF o.threw THEN removeClass(@)
                                  ELSE addClass(removeClass(@), i, newOrder)]
           /\ sort_prop' = IF o.threw THEN sort_prop
                           ELSE [set |-> TRUE, col |-> i, desc |-> newDesc,
                                 title |-> h.text]
           /\ ev' = [Ev("click") EXCEPT !.col = i, !.desc = newDesc,
                       !.threw = o.threw, !.fresh = (h.marks = {})]
  /\ UNCHANGED <<args, ready, format, base_url, dl_url, inputs, hiddens,
                 last_submit, inflight, server, lastOk>>

-----------------------------------------------------------------------------
(* setState and getState *)

\* The inputs.each loop of lines 356-366 from control i on: a control that is
\* not a __widget_field and whose name is a property of data with another
\* value takes that value, and only then is the property deleted.
RECURSIVE OwnInputs(_, _, _, _)
OwnInputs(ins, i, data, changed) ==
  IF i > Len(ins) THEN [ins |-> ins, data |-> data, changed |-> changed]
  ELSE IF /\ ~ins[i].widget_field
          /\ Has(data, ins[i].name)
          /\ Get(data, ins[i].name) # ins[i].value
    THEN OwnInputs([ins EXCEPT ![i].value = Get(data, ins[i].name)], i + 1,
                   Delete(data, ins[i].name), TRUE)
    ELSE OwnInputs(ins, i + 1, data, changed)

\* inputs, data and changed when the handler reaches line 372.  The forms of
\* the model hold no nested .__widget_form element, so the loop of lines
\* 367-371 finds nothing to delegate to.
Consume(ins, data) == OwnInputs(ins, 1, data, FALSE)

\* form.triggerHandler('setState', [p]); with aliased the argument is the
\* object an earlier getState returned and the form still stores
SetState(p, aliased) ==
  /\ ready
  /\ Len(inflight) < server.cap
  /\ LET data == IF aliased THEN last_submit ELSE p
         c    == Consume(inputs, data)
     IN  /\ inputs' = c.ins
         /\ hiddens' = c.data
         /\ last_submit' = IF aliased THEN c.data ELSE last_submit
         /\ LET r == Request(c.ins, c.data)
            IN  /\ dl_url' = r.url
                /\ inflight' = Append(inflight, r)
         /\ div' = [html |-> loading, table |-> NoTable]
         /\ ev' = [Ev("setState") EXCEPT !.ret = (c.changed \/ c.data # <<>>),
                     !.arg = data, !.patch = c.data, !.aliased = aliased]
  /\ UNCHANGED <<args, ready, format, base_url, sort_prop, server, lastOk>>

\* form.triggerHandler('getState')
getState == last_submit

-----------------------------------------------------------------------------
(* The state-synchronisation specification: a form with one field named a,  *)
(* plain or of class __widget_field, edited, submitted and driven through   *)
(* setState while the server answers with or without a table.               *)

nA == <<"a">>
nB == <<"b">>
Values == {<<"1">>, <<"2">>}

Control(n, v, wf) == [name |-> n, value |-> v, widget_field |-> wf]

Forms == {<<Control(nA, <<"2">>, FALSE)>>, <<Control(nA, <<"2">>, TRUE)>>}

Attr(v) == [present |-> TRUE, value |-> v]
NoAttr == [present |-> FALSE, value |-> <<>>]

Options(col, desc, f) ==
  [lang |-> "", init_sort_col |-> col, init_sort_desc |-> desc, failed |-> f,
   callback |-> FALSE]

\* options with a language and, when cb, a callback
Settings(lg, cb, col, desc) ==
  [lang |-> lg, init_sort_col |-> col, init_sort_desc |-> desc, failed |-> "",
   callback |-> cb]

\* the objects handed to setState: {}, {a: "1"}, {b: "2"} and {a: "1", b: "2"}
Patches ==
  {pa \o pb : pa \in {<<>>, <<[name |-> nA, value |-> <<"1">>]>>},
              pb \in {<<>>, <<[name |-> nB, value |-> <<"2">>]>>}}

Init ==
  \E attr \in {Attr(<<"t", "_", "a">>), NoAttr}, ins \in Forms :
    Construct(Options(0, FALSE, "Sorry, no data."), attr, <<"r">>, ins,
              Network("state", MaxPending))

Next ==
  \/ Submit
  \/ \E i \in 1..Len(inputs), v \in Values : EditInput(i, v)
  \/ \E p \in Patches : SetState(p, FALSE)
  \/ SetState(<<>>, TRUE)
  \/ \E k \in 1..Len(inflight), doc \in Documents(server.pool) : FetchSuccess(k, doc)
  \/ \E k \in 1..Len(inflight) : FetchError(k)

Spec == Init /\ [][Next]_vars

-----------------------------------------------------------------------------
(* Properties of the state-synchronisation specification *)

\* the form has a control named n that is not a __widget_field
OwnControl(ins, n) ==
  \E i \in 1..Len(ins) : ins[i].name = n /\ ~ins[i].widget_field

\* the form has no control named n at all, so nothing can claim the key
Unclaimed(ins, n) == \A i \in 1..Len(ins) : ins[i].name # n

\* C1: setState returns FALSE when every key of the patch names a
\* non-excluded control whose value already equals the patched value, and
\* TRUE when a control's value was altered or a key was left unclaimed.
C1_SetStateReturnsChanged ==
  [][ev'.op = "setState" =>
       LET p == ev'.arg
           allEqual == \A n \in Keys(p) :
                         \E i \in 1..Len(inputs) :
                           /\ inputs[i].name = n
                           /\ ~inputs[i].widget_field
                           /\ inputs[i].value = Get(p, n)
       IN  /\ allEqual => (ev'.ret = FALSE)
           /\ (inputs' # inputs \/ \E n \in Keys(p) : Unclaimed(inputs, n))
                => (ev'.ret = TRUE)]_vars

\* C2: after setState returned, the patch object holds no key that is the
\* name of a non-excluded control of the form.
C2_PatchKeepsNoFieldName ==
  ev.op = "setState" => \A n \in Keys(ev.patch) : ~OwnControl(inputs, n)

C4_GetStateIsLastSuccess == getState = lastOk

\* the failure markup the page configured: the failed option when passed,
\* the documented default otherwise
ConfiguredFailed ==
  IF args.failed # "" THEN args.failed
  ELSE "An error occured while attempting to load data."

\* C10: after a transport error, and after a fetched document without a
\* table, the display area shows the configured failure markup.
C10_FailureMarkupShown ==
  (ev.op = "error" \/ (ev.op = "success" /\ ~ev.hasTable))
    => div.html = ConfiguredFailed

\* C11: handling a fetched document without a table commits nothing of that
\* submission: getState and the stored sort properties are what they were.
C11_NoTableCommitsNothing ==
  [][(ev'.op = "success" /\ ~ev'.hasTable) =>
       (getState' = getState /\ sort_prop' = sort_prop)]_vars

\* the names of the fields the form holds: its own controls and the synthetic
\* hidden fields attached to it
FieldNames ==
  {inputs[i].name : i \in 1..Len(inputs)} \cup {hiddens[i].name : i \in 1..Len(hiddens)}

\* C14: the keys of the stored FormState are the names of the fields the
\* form holds; FormState has no key for which the form has no field.
C14_KeysAreFieldNames == Keys(getState) = FieldNames

\* the form carries no data-filename-format attribute (split never yields an
\* empty array, so only then is there no format)
AttributeAbsent == format = <<>>

\* url ends with the filename part table.xls
NamedTable(url) ==
  LET name == <<"/", "t", "a", "b", "l", "e">> \o extension
  IN  /\ Len(url) >= Len(name)
      /\ SubSeq(url, Len(url) - Len(name) + 1, Len(url)) = name

\* C16: on a form without a data-filename-format attribute initialisation
\* completes, and every fetch asks for a URL whose filename part is table.xls.
C16_DefaultFilename ==
  AttributeAbsent =>
    /\ ready
    /\ \A k \in 1..Len(inflight) : NamedTable(inflight[k].url)

\* C19: only a success callback changes the stored FormState: no setState
\* call does, not even one handed the object getState returned, and neither
\* does the failure of the fetch it triggers.
C19_OnlySuccessWritesFormState ==
  [][ev'.op # "success" => getState' = getState]_vars

-----------------------------------------------------------------------------
(* The URL-builder specification: forms of up to MaxFields fields with      *)
(* names and values that exercise the exclusions and both sanitisations,    *)
(* every filename template of up to MaxTemplateLen characters over a letter *)
(* and a separator, submitted.                                              *)

UrlNames == {<<"y">>, <<"_">>, <<"_", "y">>, <<"y", "-">>}
UrlValues == {<<>>, <<"2">>, <<":", "2">>}
UrlForms ==
  SeqsUpTo({Control(n, v, FALSE) : n \in UrlNames, v \in UrlValues}, MaxFields)
UrlTemplates == SeqsUpTo({"y", "_"}, MaxTemplateLen)
UrlBases == {<<"r">>, <<"r", "/">>}

InitUrl ==
  \E ins \in UrlForms, tmpl \in UrlTemplates, base \in UrlBases :
    Construct(Options(0, FALSE, ""), Attr(tmpl), base, ins, Network("none", MaxInflight))

NextUrl == Submit

SpecUrl == InitUrl /\ [][NextUrl]_vars

\* the file names the claim allows for the tokens toks: an alphanumeric token
\* that is the name of a field becomes the sanitized value of a field of that
\* name, every other token stays as it is
RECURSIVE ClaimedFileNames(_, _)
ClaimedFileNames(toks, fields) ==
  IF toks = <<>> THEN {<<>>}
  ELSE LET tok    == toks[1]
           named  == {i \in 1..Len(fields) : fields[i].name = tok}
           alnum  == tok # <<>> /\ \A j \in 1..Len(tok) : tok[j] \in Alnum
           heads  == IF alnum /\ named # {}
                       THEN {stripValue(fields[i].value) : i \in named}
                       ELSE {tok}
       IN  {h \o t : h \in heads, t \in ClaimedFileNames(Tail(toks), fields)}

\* the segments the claim lists: one per field with a non-empty value and a
\* name not starting with an underscore, in form order
RECURSIVE ClaimedSegments(_)
ClaimedSegments(fields) ==
  IF fields = <<>> THEN <<>>
  ELSE (IF fields[1].value # <<>> /\ fields[1].name[1] # "_"
          THEN stripName(fields[1].name) \o <<":">>
               \o stripValue(fields[1].value) \o <<"/">>
          ELSE <<>>)
       \o ClaimedSegments(Tail(fields))

\* C8: the URL fetched on submit is the base URL ending in a slash, the
\* segments of the non-empty, non-underscore fields in form order, the
\* template with its alphanumeric tokens that name a field replaced by that
\* field's sanitized value and every other token literal, then ".xls".
C8_FetchUrlShape ==
  ev.op = "submit" =>
    /\ base_url[Len(base_url)] = "/"
    /\ inflight[Len(inflight)].url \in
         {base_url \o ClaimedSegments(serializeArray(inputs, hiddens)) \o f
            \o <<".", "x", "l", "s">> :
            f \in ClaimedFileNames(format, serializeArray(inputs, hiddens))}

\* the spec's end-to-end example: fields year and _debug, template table_year
C8_Example ==
  BuildUrl(NormalizeBase(<<"h", ":", "/", "/", "x", "/", "r">>),
           <<[name |-> <<"y", "e", "a", "r">>, value |-> <<"2", "0", "2", "0">>],
             [name |-> <<"_", "d", "e", "b", "u", "g">>, value |-> <<"x">>]>>,
           split(<<"t", "a", "b", "l", "e", "_", "y", "e", "a", "r">>))
  = <<"h", ":", "/", "/", "x", "/", "r", "/", "y", "e", "a", "r", ":",
      "2", "0", "2", "0", "/", "t", "a", "b", "l", "e", "_", "2", "0", "2", "0",
      ".", "x", "l", "s">>

-----------------------------------------------------------------------------
(* The table specification: a form with one field, every configured        *)
(* init_sort_col in 0..1 and init_sort_desc, a server that answers with     *)
(* tables of several shapes, and a user who clicks on the header cells.     *)

InitTable ==
  \E col \in 0..1, desc \in BOOLEAN :
    Construct(Options(col, desc, ""), Attr(<<"t">>), <<"r">>,
              <<Control(nA, <<"2">>, FALSE)>>, Network("table", MaxInflight))

NextTable ==
  \/ Submit
  \/ \E k \in 1..Len(inflight), doc \in Documents(server.pool) : FetchSuccess(k, doc)
  \/ \E k \in 1..Len(inflight) : FetchError(k)
  \/ \E i \in 0..1 : ClickHeader(i)

SpecTable == InitTable /\ [][NextTable]_vars

\* out holds the rows of in, each once
SameRows(out, in) ==
  /\ Len(out) = Len(in)
  /\ \A i \in 1..Len(in) : \E j \in 1..Len(out) : out[j] = in[i]

\* rows are in the order of column colIndex, ascending or descending
SortedBy(rows, colIndex, descending, sortType) ==
  /\ ~ComparatorThrows(rows, colIndex, sortType)
  /\ \A i, j \in 1..Len(rows) :
       i < j => IF descending
                  THEN comparator(rows[i], rows[j], colIndex, sortType) >= 0
                  ELSE comparator(rows[i], rows[j], colIndex, sortType) <= 0

\* header cell colIndex, and no other, carries a marker: the one of descending
MarkedAt(headers, colIndex, descending) ==
  /\ colIndex + 1 <= Len(headers)
  /\ \A i \in 1..Len(headers) :
       headers[i].marks = IF i = colIndex + 1 THEN {OrderClass(descending)} ELSE {}

\* C5: a click on a header without a marker sorts by that column in the
\* configured initial direction, a click that follows a click on the same
\* header sorts in the other direction than that one, and every click stores
\* the column index, the direction and the header text as the form's sort
\* properties.
C5_ClickStateMachine ==
  [][ev'.op = "click" =>
       LET i == ev'.col
           h == div.table.headers[i + 1]
       IN  /\ h.marks = {} => ev'.desc = init_sort_desc
           /\ (ev.op = "click" /\ ev.col = i) => ev'.desc # ev.desc
           /\ sort_prop' = [set |-> TRUE, col |-> i, desc |-> ev'.desc,
                            title |-> h.text]
           /\ SameRows(div'.table.rows, div.table.rows)
           /\ SortedBy(div'.table.rows, i, ev'.desc, h.cls)]_vars

\* C6: whenever a loaded table is displayed, exactly one of its header cells
\* carries a sort marker, and that cell carries exactly one of asc and desc.
C6_ExactlyOneMarker ==
  div.html = "table" =>
    \E i \in 1..Len(div.table.headers) :
      /\ Cardinality(div.table.headers[i].marks) = 1
      /\ \A j \in 1..Len(div.table.headers) :
           j # i => div.table.headers[j].marks = {}

\* C7: after a successful reload the table is sorted and marked by the stored
\* sort properties if the new table has a header at the stored index with the
\* stored text, and by init_sort_col and init_sort_desc in every other case.
C7_ReloadAppliesSort ==
  (ev.op = "success" /\ ev.hasTable) =>
    LET hs   == div.table.headers
        kept == /\ sort_prop.set
                /\ sort_prop.col + 1 <= Len(hs)
                /\ hs[sort_prop.col + 1].text = sort_prop.title
        c    == IF kept THEN sort_prop.col ELSE init_sort_col
        d    == IF kept THEN sort_prop.desc ELSE init_sort_desc
    IN  /\ MarkedAt(hs, c, d)
        /\ SortedBy(div.table.rows, c, d, hs[c + 1].cls)
        /\ \A r \in 1..Len(div.table.rows) :
             \E j \in 1..Len(div.table.rows) : div.table.rows[j].id = r

-----------------------------------------------------------------------------
(* The sort specification: tables of one column of each kind with up to     *)
(* MaxRows rows, over cell texts that tie, differ and fail to parse, loaded *)
(* and re-sorted by clicks on the header.                                   *)

InitSort ==
  \E cls \in ColumnKinds, desc \in BOOLEAN :
    Construct(Options(0, desc, ""), Attr(<<"t">>), <<"r">>,
              <<Control(nA, <<"2">>, FALSE)>>, Network(cls, MaxPending))

NextSort ==
  \/ Submit
  \/ \E k \in 1..Len(inflight), doc \in Documents(server.pool) : FetchSuccess(k, doc)
  \/ \E k \in 1..Len(inflight) : FetchError(k)
  \/ ClickHeader(0)

SpecSort == InitSort /\ [][NextSort]_vars

\* the rows of out in the order of the fetched document
DocumentOrder(out) ==
  [r \in 1..Len(out) |-> out[CHOOSE j \in 1..Len(out) : out[j].id = r]]

\* asc holds the rows of in, and two rows of in that compare equal are in asc
\* in the order they have in in
KeepsTies(asc, in, colIndex, sortType) ==
  LET pos(r) == CHOOSE p \in 1..Len(asc) : asc[p] = r
  IN  /\ SameRows(asc, in)
      /\ \A i, j \in 1..Len(in) :
           (i < j /\ comparator(in[i], in[j], colIndex, sortType) = 0)
             => pos(in[i]) < pos(in[j])

-----------------------------------------------------------------------------
(* Overlapping submissions: the user edits the field and submits again while
   an earlier fetch is outstanding; the server reports the URL it was asked *)

InitOverlap ==
  Construct(Options(0, FALSE, ""), Attr(<<"t", "_", "a">>), <<"r">>,
            <<Control(nA, <<"2">>, FALSE)>>, Network("echo", MaxInflight))

NextOverlap ==
  \/ Submit
  \/ \E v \in Values : EditInput(1, v)
  \/ \E k \in 1..Len(inflight) : FetchSuccess(k, EchoDoc(inflight[k].url))
  \/ \E k \in 1..Len(inflight) : FetchError(k)

SpecOverlap == InitOverlap /\ [][NextOverlap]_vars

\* the display holds the table of document doc: its header cells and its rows
ShowsDocument(d, doc) ==
  /\ d.html = "table"
  /\ Len(d.table.headers) = Len(doc.headers)
  /\ \A i \in 1..Len(doc.headers) : d.table.headers[i].text = doc.headers[i].text
  /\ Len(d.table.rows) = Len(doc.rows)
  /\ \A r \in 1..Len(doc.rows) :
       \E j \in 1..Len(d.table.rows) :
         d.table.rows[j].id = r /\ d.table.rows[j].cells = doc.rows[r]

\* C12: a submission cancels no outstanding fetch; every success callback
\* puts the table of its own response on display and stores the fields of its
\* own submission, every error callback puts up the failure markup and leaves
\* the stored fields alone, and neither touches another outstanding fetch, so
\* the callback that runs last decides what is shown and stored.
C12_LastCallbackWins ==
  [][/\ ev'.op \notin {"success", "error"} =>
          \A k \in 1..Len(inflight) :
            k <= Len(inflight') /\ inflight'[k] = inflight[k]
     /\ ev'.op = "success" =>
          /\ ev'.req \in 1..Len(inflight)
          /\ inflight' = RemoveAt(inflight, ev'.req)
          /\ ShowsDocument(div', EchoDoc(inflight[ev'.req].url))
          /\ getState' = inflight[ev'.req].fieldsObj
     /\ ev'.op = "error" =>
          /\ ev'.req \in 1..Len(inflight)
          /\ inflight' = RemoveAt(inflight, ev'.req)
          /\ div' = [html |-> failed, table |-> NoTable]
          /\ getState' = getState]_vars

\* the success callback of the older of two overlapping submissions with
\* different field values ran last: its table and its fields are final
C12_Witness ==
  /\ ev.op = "success"
  /\ inflight = <<>>
  /\ ShowsDocument(div, EchoDoc(BuildUrl(base_url, getState, format)))
  /\ dl_url # BuildUrl(base_url, getState, format)
  /\ getState # MakeFieldsObj(serializeArray(inputs, hiddens))

\* the URL the document on display was fetched from, as the server reported
\* it in the only cell of the table
FetchedFrom(t) == t.rows[1].cells[1]

\* C18: the caption link of a displayed table points to the URL the table's
\* document was fetched from, and the stored FormState is the field set that
\* produced this URL.
C18_LinkMatchesTable ==
  div.html = "table" =>
    /\ div.table.href = FetchedFrom(div.table)
    /\ BuildUrl(base_url, getState, format) = FetchedFrom(div.table)

-----------------------------------------------------------------------------
(* The callback option: forms configured with and without a callback *)

InitCallback ==
  \E cb \in BOOLEAN, col \in 0..1, desc \in BOOLEAN :
    Construct(Settings("", cb, col, desc), Attr(<<"t">>), <<"r">>,
              <<Control(nA, <<"2">>, FALSE)>>, Network("table", MaxPending))

NextCallback ==
  \/ Submit
  \/ \E k \in 1..Len(inflight), doc \in Documents(server.pool) : FetchSuccess(k, doc)
  \/ \E k \in 1..Len(inflight) : FetchError(k)
  \/ \E i \in 0..1 : ClickHeader(i)

SpecCallback == InitCallback /\ [][NextCallback]_vars

\* table t is as materialized and not yet sorted: every row in document order
\* with one typed entry per cell, no header cell marked
Unsorted(t) ==
  /\ t.present
  /\ \A r \in 1..Len(t.rows) :
       /\ t.rows[r].id = r
       /\ Len(t.rows[r].data) = Len(t.rows[r].cells)
       /\ \A c \in 1..Len(t.rows[r].cells) :
            c <= Len(t.headers) =>
              t.rows[r].data[c] = TypedValue(t.headers[c].cls, t.rows[r].cells[c], lang)
  /\ \A h \in 1..Len(t.headers) : t.headers[h].marks = {}

HasShortRow(t) ==
  \E r \in 1..Len(t.rows) : Len(t.rows[r].cells) < Len(t.headers)

\* C15: a table with a body row shorter than the header row is sorted without
\* error on load and on every later header click, and all of its body rows
\* stay on display.
C15_ShortRowTolerated ==
  [][/\ (ev'.op = "success" /\ ev'.hasTable /\ callback /\ HasShortRow(ev'.seen[1])) =>
          /\ ~ev'.threw
          /\ SameRows(div'.table.rows, ev'.seen[1].rows)
     /\ (ev'.op = "click" /\ HasShortRow(div.table)) =>
          /\ ~ev'.threw
          /\ SameRows(div'.table.rows, div.table.rows)]_vars

-----------------------------------------------------------------------------
(* Number parsing under the lang option *)

InitLocale ==
  \E lg \in {"en", "fr"} :
    Construct(Settings(lg, FALSE, 0, FALSE), Attr(<<"t">>), <<"r">>,
              <<Control(nA, <<"2">>, FALSE)>>, Network("locale", MaxPending))

NextLocale ==
  \/ Submit
  \/ \E k \in 1..Len(inflight), doc \in Documents(server.pool) : FetchSuccess(k, doc)
  \/ \E k \in 1..Len(inflight) : FetchError(k)
  \/ \E i \in 0..1 : ClickHeader(i)

SpecLocale == InitLocale /\ [][NextLocale]_vars

\* s with every c replaced by r
replaceAll(s, c, r) == [i \in 1..Len(s) |-> IF s[i] = c THEN r ELSE s[i]]

\* the number claimed for cell text src under fr: commas become periods, the
\* characters outside [0-9+-.] go, the rest is parsed
ClaimedFrench(src) == parseFloat(stripNonNumeric(replaceAll(src, ",", ".")))

\* C17: under lang fr every number and amount cell is typed as the number
\* read after replacing each of its commas with a period and stripping the
\* characters outside [0-9+-.], and the text 1,234.50 is typed as 1234.50.
C17_FrenchCommas ==
  (lang = "fr" /\ div.html = "table") =>
    \A r \in 1..Len(div.table.rows) :
      \A c \in 1..Len(div.table.rows[r].cells) :
        LET src == div.table.rows[r].cells[c]
        IN  /\ div.table.rows[r].data[c] = ClaimedFrench(src)
            /\ src = <<"1", ",", "2", "3", "4", ".", "5", "0">> =>
                  div.table.rows[r].data[c] = NumV(123450, 2)

-----------------------------------------------------------------------------
(* Row order and the sorts applied before *)

\* C20: a header click displays a permutation of the rows that were on
\* display, in the order that sorting the rows as materialized (in document
\* order) by the clicked column and the new direction gives: the order does
\* not depend on the sorts applied before, so that the third click on a header
\* restores the order of the first.
C20_OrderIndependentOfHistory ==
  [][ev'.op = "click" =>
       LET i   == ev'.col
           cls == div.table.headers[i + 1].cls
       IN  /\ SameRows(div'.table.rows, div.table.rows)
           /\ div'.table.rows \in
                {o.rows : o \in sortTable(DocumentOrder(div.table.rows), i,
                                         ev'.desc, cls)}]_vars
====
